---- MODULE Spec2Model ----
(***************************************************************************)
(* Model of the scheduling and insights engine of the task tracker:        *)
(*   modules/intelligent_scheduler.py  (IntelligentScheduler)              *)
(*   modules/analytics.py              (Analytics)                         *)
(*   modules/time_tracker.py           (TimeTracker)                       *)
(*                                                                         *)
(* Three specifications share the variables: Spec (a caller invoking the   *)
(* operations one at a time), SpecReminder (the reminder threads against   *)
(* start / stop, with time in seconds moving from one timer expiry to the  *)
(* next) and SpecTimers (TimeTracker instances running start_timer and     *)
(* stop_timer query by query).                                             *)
(*                                                                         *)
(* Representation of values                                                *)
(*   - an optional value (Python None / SQL NULL) is a sequence of length  *)
(*     0 or 1: <<>> is None, <<v>> is the value v;                         *)
(*   - a MySQL AVG() result (a Decimal with four decimals) is an integer   *)
(*     number of 1/10000 minutes;                                          *)
(*   - round(x, 1) results are integers in tenths, round(x, 2) results are *)
(*     integers in hundredths;                                             *)
(*   - a datetime is a number of minutes since 00:00 of day 0;             *)
(*   - the float confidence of predict_task_duration (70.0, 50.0) is the   *)
(*     string of its digits, the confidence_level of Analytics its label;  *)
(*   - a call returns [raised |-> FALSE, value |-> v] or, when an          *)
(*     exception leaves the function, [raised |-> TRUE, error |-> e].      *)
(***************************************************************************)
EXTENDS Integers, Sequences, FiniteSets, TLC

VARIABLES
    analytics,   \* IntelligentScheduler.analytics: "None" or "Analytics"
    op,          \* the operation whose result is pending at the caller, or "idle"
    arg,         \* the inputs of that operation (arguments and store outcomes)
    ret,         \* what the operation returned
    is_running,       \* IntelligentScheduler.is_running
    reminder_thread,  \* IntelligentScheduler.reminder_thread: <<>> or <<worker>>
    workers,          \* every reminder thread created so far, with its position
    fg,               \* position of the thread that calls start / stop
    join_left,        \* seconds left of the join in stop_reminder_system
    console,          \* the last line start / stop printed
    store,            \* the tasks and recent work the reminder queries read
    notifications,    \* what each pass of the reminder loop printed
    time_logs,        \* the rows of the time_logs table
    trackers,         \* the position of each TimeTracker instance
    shared_cursor,    \* DatabaseConnector.cursor: the result set not yet read
    callers           \* the execute_query call of each thread of the scheduler

callVars == <<analytics, op, arg, ret>>
reminderVars == <<is_running, reminder_thread, workers, fg, join_left,
                  console, store, notifications>>
timerVars == <<time_logs, trackers>>
cursorVars == <<shared_cursor, callers>>

vars == <<analytics, op, arg, ret, is_running, reminder_thread, workers, fg,
          join_left, console, store, notifications, time_logs, trackers,
          shared_cursor, callers>>

(***************************************************************************)
(* Bounds of the model.                                                    *)
(***************************************************************************)
MaxCount == 2       \* largest completion_count of a similar-task row
MaxTasks == 4       \* largest number of tasks of the user
MaxBatch == 2       \* longest candidate list given to create_smart_schedule

(***************************************************************************)
(* Generic helpers.                                                        *)
(***************************************************************************)
Return(v) == [raised |-> FALSE, value |-> v]

Raise(e) == [raised |-> TRUE, error |-> e]

Range(s) == {s[i] : i \in 1..Len(s)}

SetMin(S) == CHOOSE x \in S : \A y \in S : x <= y

Last(seq) == seq[Len(seq)]

RECURSIVE Flatten(_, _)
\* f[1] \o ... \o f[n]
Flatten(f, n) == IF n = 0 THEN <<>> ELSE Flatten(f, n - 1) \o f[n]

RECURSIVE SumSeq(_)
SumSeq(seq) == IF seq = <<>> THEN 0 ELSE Head(seq) + SumSeq(Tail(seq))

\* The first n elements of seq (all of them when it is shorter): LIMIT n
Take(seq, n) == SubSeq(seq, 1, IF Len(seq) < n THEN Len(seq) ELSE n)

RECURSIVE SortDesc(_, _)
\* The elements of the set S, the one with the largest rank[x] first: ORDER BY
\* ... DESC (rows of equal rank come in an order the server chooses).
SortDesc(S, rank) ==
    IF S = {} THEN <<>>
    ELSE LET top == CHOOSE x \in S : \A y \in S : rank[x] >= rank[y]
         IN  <<top>> \o SortDesc(S \ {top}, rank)

SetMax(S) == CHOOSE x \in S : \A y \in S : x >= y

\* Python round() of the non-negative rational n/d to an integer: round half
\* to even (Decimal.__round__, and float round() on an exact tie).
RoundHalfEven(n, d) ==
    LET q == n \div d
        r == n % d
    IN  IF 2 * r < d THEN q
        ELSE IF 2 * r > d THEN q + 1
        ELSE IF q % 2 = 0 THEN q ELSE q + 1

\* dict.get(key, default)
DictGet(dict, key, default) ==
    IF key \in DOMAIN dict THEN dict[key] ELSE default

(***************************************************************************)
(* The store as the queries of the engine see it.                          *)
(***************************************************************************)
\* Rows of task_categories (category_id -> category_name).  Id 4 carries a
\* capitalised name, id 7 a name that the default table does not know.
CategoryTable ==
    (1 :> "coding") @@ (2 :> "design") @@ (3 :> "testing") @@ (4 :> "Meeting")
    @@ (5 :> "planning") @@ (6 :> "documentation") @@ (7 :> "research")

\* category_id arguments: 0 stands for None (both are falsy in
\* "if category_id:"), 8 is an id without a row in task_categories.
CategoryIds == 0..8

\* Outcome of one query sent through DatabaseConnector.execute_query:
\*   "ok"    the query runs,
\*   "error" mysql.connector.Error (also: no connection and reconnect fails),
\*   "raise" any other exception.
QueryOutcomes == {"ok", "error", "raise"}

\* AVG(tl.duration_minutes) over the user's sessions, in 1/10000 minutes:
\* 0, 1, 3, 45.75 and 150 minutes.
AvgValues == {0, 10000, 30000, 457500, 1500000}

OptionOf(S) == {<<>>} \cup {<<v>> : v \in S}

\* str.lower() on the category names of the table
Lower(name) ==
    IF name = "Meeting" THEN "meeting" ELSE name

(***************************************************************************)
(* DatabaseConnector.execute_query for a SELECT: the fetched rows, None    *)
(* when mysql.connector.Error is caught; any other exception propagates.   *)
(***************************************************************************)
execute_query(outcome, rows) ==
    IF outcome = "raise" THEN Raise("Exception")
    ELSE IF outcome = "error" THEN Return(<<>>)
    ELSE Return(<<rows>>)

\* truth value of an execute_query result: None and [] are falsy
Truthy(result) == result # <<>> /\ result[1] # <<>>

(***************************************************************************)
(* IntelligentScheduler.predict_task_duration                              *)
(***************************************************************************)
\* default_durations, in minutes, with .get(name, 60)
default_durations(name) ==
    CASE name = "coding" -> 120
      [] name = "design" -> 90
      [] name = "planning" -> 60
      [] name = "testing" -> 45
      [] name = "documentation" -> 60
      [] name = "meeting" -> 30
      [] name = "other" -> 60
      [] OTHER -> 60

\* SELECT category_name FROM task_categories WHERE category_id = %s
CategoryRows(category_id) ==
    IF category_id \in DOMAIN CategoryTable
    THEN <<[category_name |-> CategoryTable[category_id]]>>
    ELSE <<>>

\* The try block.  env.cat and env.avg_q are the outcomes of the two queries,
\* env.avg the AVG the second one computes (<<>> is NULL).
\* 'duration' is round(duration / 60, 1): tenths of an hour.
predict_try(category_id, env) ==
    LET cat_result ==
            IF category_id # 0
            THEN execute_query(env.cat, CategoryRows(category_id))
            ELSE Return(<<>>)
    IN  IF cat_result.raised THEN cat_result
        ELSE
        LET category_name ==
                IF category_id # 0 /\ Truthy(cat_result.value)
                THEN cat_result.value[1][1].category_name
                ELSE "other"
            result == execute_query(env.avg_q, <<[avg_duration |-> env.avg]>>)
        IN  IF result.raised THEN result
            ELSE
            LET avg == IF Truthy(result.value)
                       THEN result.value[1][1].avg_duration ELSE <<>>
                duration ==
                    IF avg # <<>> /\ avg[1] # 0
                    THEN avg[1]
                    ELSE default_durations(Lower(category_name)) * 10000
            IN  Return([duration |-> RoundHalfEven(duration, 60000),
                        confidence |-> "70.0",
                        method |-> "Historical Average"])

predict_task_duration(category_id, env) ==
    LET r == predict_try(category_id, env)
    IN  IF r.raised
        THEN Return([duration |-> 10,
                     confidence |-> "50.0",
                     method |-> "Default Estimate"])
        ELSE r

\* Store outcomes a call of predict_task_duration can meet: sessions exist
\* only for tasks of a category that has a row in task_categories.
PredictEnvs(category_id) ==
    {env \in [cat : QueryOutcomes, avg_q : QueryOutcomes, avg : OptionOf(AvgValues)] :
        /\ category_id \notin DOMAIN CategoryTable => env.avg = <<>>
        /\ category_id = 0 => env.cat = "ok"}

(***************************************************************************)
(* Analytics.calculate_average_time and                                    *)
(* Analytics.get_smart_scheduling_suggestion.  Analytics runs its queries  *)
(* on its own cursor: mysql.connector.Error is caught by the method, any   *)
(* other exception leaves it.                                              *)
(***************************************************************************)
SimilarLimit == 5   \* LIMIT 5 of the similar-tasks query

\* AVG(tl.duration_minutes) of one similar task, in 1/10000 minutes:
\* 10.3333, 30 and 125 minutes.
SimilarAvgValues == {103333, 300000, 1250000}

SimilarRows == [avg_duration : SimilarAvgValues, completion_count : 1..MaxCount]

\* Results of the similar-tasks query: GROUP BY task, COUNT(*) >= 1,
\* ORDER BY completion_count DESC, LIMIT 5.
SimilarRowLists ==
    {rows \in UNION {[1..n -> SimilarRows] : n \in 0..SimilarLimit} :
        \A i \in 1..(Len(rows) - 1) :
            rows[i].completion_count >= rows[i + 1].completion_count}

RECURSIVE SumCounts(_)
\* sum(task['completion_count'] for task in similar_tasks)
SumCounts(rows) ==
    IF rows = <<>> THEN 0
    ELSE Head(rows).completion_count + SumCounts(Tail(rows))

RECURSIVE SumWeighted(_)
\* sum(task['avg_duration'] * task['completion_count'] for task in similar_tasks)
SumWeighted(rows) ==
    IF rows = <<>> THEN 0
    ELSE Head(rows).avg_duration * Head(rows).completion_count
         + SumWeighted(Tail(rows))

RECURSIVE SumAvg(_)
SumAvg(rows) ==
    IF rows = <<>> THEN 0 ELSE Head(rows).avg_duration + SumAvg(Tail(rows))

\* Variant of weighted_estimate that ignores the weights (plain mean).
unweighted_estimate(rows) ==
    IF rows # <<>> THEN RoundHalfEven(SumAvg(rows), Len(rows) * 100) ELSE 0

\* round(weighted_avg, 2) with weighted_avg = sum / total_weight if
\* total_weight > 0 else 0: hundredths of a minute.
weighted_estimate(rows) ==
    LET total_weight == SumCounts(rows)
    IN  IF total_weight > 0
        THEN RoundHalfEven(SumWeighted(rows), total_weight * 100)
        ELSE 0

\* Variant of confidence_level with the threshold off by one.
confidence_level_above_three(rows) ==
    IF Len(rows) > 3 THEN "high" ELSE "medium"

\* "high" if len(similar_tasks) >= 3 else "medium"
confidence_level(rows) ==
    IF Len(rows) >= 3 THEN "high" ELSE "medium"

calculate_average_time(outcome, avg) ==
    IF outcome = "raise" THEN Raise("Exception")
    ELSE IF outcome = "error" THEN Return(0)
    ELSE Return(IF avg # <<>> /\ avg[1] # 0 THEN avg[1] ELSE 0)

\* estimated_duration is in hundredths of a minute
recommended_breaks(estimated_duration) ==
    IF estimated_duration > 12000
    THEN <<[time |-> (estimated_duration \div 200) * 100, duration |-> 15,
            type |-> "mid-session break"],
           [time |-> estimated_duration, duration |-> 30,
            type |-> "completion break"]>>
    ELSE IF estimated_duration > 6000
    THEN <<[time |-> estimated_duration, duration |-> 15,
            type |-> "completion break"]>>
    ELSE <<>>

\* env.sim_q: outcome of the similar-tasks query, env.rows: its rows,
\* env.avg_q, env.avg: outcome and AVG of the query of calculate_average_time.
get_smart_scheduling_suggestion(category_id, env) ==
    IF env.sim_q = "raise" THEN Raise("Exception")
    ELSE IF env.sim_q = "error"
    THEN Return([estimated_duration |-> 0, confidence_level |-> "low",
                 recommended_breaks |-> <<>>, similar_tasks |-> <<>>])
    ELSE IF env.rows # <<>>
    THEN LET estimated == weighted_estimate(env.rows)
         IN  Return([estimated_duration |-> estimated,
                     confidence_level |-> confidence_level(env.rows),
                     recommended_breaks |-> recommended_breaks(estimated),
                     similar_tasks |-> env.rows])
    ELSE LET general_avg == calculate_average_time(env.avg_q, env.avg)
         IN  IF general_avg.raised THEN general_avg
             ELSE LET estimated == RoundHalfEven(general_avg.value, 100)
                  IN  Return([estimated_duration |-> estimated,
                              confidence_level |-> "low",
                              recommended_breaks |-> recommended_breaks(estimated),
                              similar_tasks |-> <<>>])

\* Store outcomes a call of get_smart_scheduling_suggestion can meet.  The
\* second query runs only when the first found nothing.
SuggestionEnvs ==
    {env \in [sim_q : QueryOutcomes, rows : SimilarRowLists,
              avg_q : QueryOutcomes, avg : OptionOf(AvgValues)] :
        /\ env.sim_q # "ok" => env.rows = <<>>
        /\ (env.sim_q # "ok" \/ env.rows # <<>>) =>
               (env.avg_q = "ok" /\ env.avg = <<>>)
        /\ env.avg_q # "ok" => env.avg = <<>>}

(***************************************************************************)
(* Analytics.get_productivity_insights and get_task_completion_rate        *)
(***************************************************************************)
\* f"{hour:02d}:00" as its four digits
TimeLabel(hour) == <<hour \div 10, hour % 10, 0, 0>>

\* COUNT(CASE WHEN completed ...) and COUNT(*) of the user's tasks
CompletionCounts ==
    {c \in [completed : 0..MaxTasks, total : 0..MaxTasks] : c.completed <= c.total}

\* Which of the five queries fails, if any (at = 0: none), and how.
InsightFailures ==
    {[at |-> 0, how |-> "error"]}
    \cup [at : 1..5, how : {"error", "raise"}]

\* The rows of projects
ProjectTable == <<"tekstac", "thesis", "garden", "taxes", "blog", "move">>

\* Kinds of task of the user.  A session is a row of time_logs: the hour of
\* its start_time and its duration_minutes, NULL while the timer runs.
\*   1: no category, no project, pending, never timed
\*   2: coding, project 1, completed, three sessions of 30 minutes at 9
\*   3: design, project 1, pending, one session of 60 minutes at 14
\*   4: testing, project 2, completed, one session of 45 minutes at 20
\*   5: coding, project 2, pending, 90 minutes at 9 and a running timer
InsightTaskKinds ==
    <<[category_id |-> <<>>, project_id |-> <<>>, completed |-> FALSE,
       sessions |-> <<>>],
      [category_id |-> <<1>>, project_id |-> <<1>>, completed |-> TRUE,
       sessions |-> <<[hour |-> 9, minutes |-> <<30>>],
                      [hour |-> 9, minutes |-> <<30>>],
                      [hour |-> 9, minutes |-> <<30>>]>>],
      [category_id |-> <<2>>, project_id |-> <<1>>, completed |-> FALSE,
       sessions |-> <<[hour |-> 14, minutes |-> <<60>>]>>],
      [category_id |-> <<3>>, project_id |-> <<2>>, completed |-> TRUE,
       sessions |-> <<[hour |-> 20, minutes |-> <<45>>]>>],
      [category_id |-> <<1>>, project_id |-> <<2>>, completed |-> FALSE,
       sessions |-> <<[hour |-> 9, minutes |-> <<90>>],
                      [hour |-> 22, minutes |-> <<>>]>>]>>

\* Six untimed pending tasks in six categories and six projects.
WideTasks ==
    [k \in 1..6 |-> [category_id |-> <<k>>, project_id |-> <<k>>,
                     completed |-> FALSE, sessions |-> <<>>]]

\* The tasks a user can have: up to MaxTasks tasks of the kinds above (listed
\* in the order of their kinds), or the six wide ones.
InsightTaskLists ==
    {[i \in DOMAIN ks |-> InsightTaskKinds[ks[i]]] :
        ks \in {q \in UNION {[1..n -> DOMAIN InsightTaskKinds] : n \in 0..MaxTasks} :
                   \A a, b \in DOMAIN q : a < b => q[a] <= q[b]}}
    \cup {WideTasks}

\* A MySQL AVG over integers: sum / n as a Decimal with four decimals,
\* rounded half up, in 1/10000.
Avg4(sum, n) == (20000 * sum + n) \div (2 * n)

\* The sessions of all the tasks, time_logs JOIN tasks
SessionsOf(tasks) ==
    Flatten([k \in DOMAIN tasks |-> tasks[k].sessions], Len(tasks))

\* ... AND tl.duration_minutes IS NOT NULL
TimedSessions(tasks) ==
    SelectSeq(SessionsOf(tasks), LAMBDA s : s.minutes # <<>>)

MinutesAt(sessions, hours) ==
    LET at == SelectSeq(sessions, LAMBDA s : s.hour \in hours)
    IN  [k \in DOMAIN at |-> at[k].minutes[1]]

\* Variant of time_analysis_query that orders the hours by total duration.
time_analysis_query_by_total(tasks) ==
    LET sessions == TimedSessions(tasks)
        hours == {sessions[k].hour : k \in DOMAIN sessions}
        total(h) == SumSeq(MinutesAt(sessions, {h}))
    IN  IF hours = {} THEN {<<>>}
        ELSE {<<h>> : h \in {g \in hours :
                                \A o \in hours : total(g) >= total(o)}}

\* The hour column of the row time_analysis_query gives (the rows cursor
\* .fetchone() can return: None is <<>>): GROUP BY HOUR(start_time) ORDER BY
\* avg_duration DESC LIMIT 1; among hours of equal average the server chooses.
time_analysis_query(tasks) ==
    LET sessions == TimedSessions(tasks)
        hours == {sessions[k].hour : k \in DOMAIN sessions}
        avg_duration(h) ==
            LET minutes == MinutesAt(sessions, {h})
            IN  Avg4(SumSeq(minutes), Len(minutes))
    IN  IF hours = {} THEN {<<>>}
        ELSE {<<h>> : h \in {g \in hours :
                                \A o \in hours :
                                    avg_duration(g) >= avg_duration(o)}}

\* avg_session of avg_session_query: NULL without timed sessions
avg_session_query(tasks) ==
    LET minutes == MinutesAt(TimedSessions(tasks), 0..23)
    IN  IF minutes = <<>> THEN <<>>
        ELSE <<Avg4(SumSeq(minutes), Len(minutes))>>

\* completed and total of completion_query
completion_query(tasks) ==
    [completed |-> Cardinality({k \in DOMAIN tasks : tasks[k].completed}),
     total |-> Len(tasks)]

\* The rows of tasks LEFT JOIN time_logs for the tasks at the positions ks:
\* one per session, one for a task without session.
JoinedRows(tasks, ks) ==
    SumSeq([i \in 1..Len(tasks) |->
               IF i \notin ks THEN 0
               ELSE IF tasks[i].sessions = <<>> THEN 1
               ELSE Len(tasks[i].sessions)])

\* The timed minutes of the tasks at the positions ks
GroupMinutes(tasks, ks) ==
    MinutesAt(TimedSessions([i \in 1..Len(tasks) |->
                                IF i \in ks THEN tasks[i]
                                ELSE [tasks[i] EXCEPT !.sessions = <<>>]]),
              0..23)

\* Rows of the category query, handed on as fetched: one row per category
\* (NULL for the tasks without one, LEFT JOIN), COUNT(*) of the joined rows,
\* AVG(duration_minutes), ORDER BY task_count DESC LIMIT 5.
TopCategoryRows(env) ==
    LET tasks == env.tasks
        groups == {tasks[k].category_id : k \in DOMAIN tasks}
        row(g) ==
            LET ks == {k \in DOMAIN tasks : tasks[k].category_id = g}
                minutes == GroupMinutes(tasks, ks)
            IN  [category_name |->
                     IF g = <<>> THEN <<>> ELSE <<CategoryTable[g[1]]>>,
                 task_count |-> JoinedRows(tasks, ks),
                 avg_duration |->
                     IF minutes = <<>> THEN <<>>
                     ELSE <<Avg4(SumSeq(minutes), Len(minutes))>>]
        rows == {row(g) : g \in groups}
    IN  Take(SortDesc(rows, [r \in rows |-> r.task_count]), 5)

\* Rows of the project query, handed on as fetched: one row per project,
\* COUNT(t.task_id) of the joined rows, SUM(duration_minutes) (NULL without
\* timed sessions), ORDER BY total_time DESC (NULL last) LIMIT 5.
ProjectBreakdownRows(env) ==
    LET tasks == env.tasks
        groups == {tasks[k].project_id : k \in DOMAIN tasks}
        row(g) ==
            LET ks == {k \in DOMAIN tasks : tasks[k].project_id = g}
                minutes == GroupMinutes(tasks, ks)
            IN  [project_name |->
                     IF g = <<>> THEN <<>> ELSE <<ProjectTable[g[1]]>>,
                 task_count |-> JoinedRows(tasks, ks),
                 total_time |->
                     IF minutes = <<>> THEN <<>> ELSE <<SumSeq(minutes)>>]
        rows == {row(g) : g \in groups}
    IN  Take(SortDesc(rows, [r \in rows |->
                                IF r.total_time = <<>> THEN -1
                                ELSE r.total_time[1]]), 5)

\* The tasks without category, project and session
BareTasks(tasks) ==
    {k \in DOMAIN tasks : tasks[k] = InsightTaskKinds[1]}

\* What the store holds for one user and what its queries answer: hour,
\* avg_session and counts are the results of the first three queries on the
\* user's tasks, bare the number of tasks without category, project and
\* session.
InsightEnvs ==
    UNION {
      UNION {
        {[fail |-> fail, tasks |-> tasks, hour |-> hour,
          avg_session |-> avg_session_query(tasks),
          counts |-> completion_query(tasks),
          bare |-> Cardinality(BareTasks(tasks))] :
            hour \in time_analysis_query(tasks)} :
        fail \in InsightFailures} :
      tasks \in InsightTaskLists}

\* Variant of completion_rate that reports the fraction, not the percentage.
completion_rate_fraction(counts) ==
    IF counts.total > 0
    THEN RoundHalfEven(counts.completed * 10, counts.total)
    ELSE 0

\* round((completed / total) * 100, 1): tenths of a percent
completion_rate(counts) ==
    IF counts.total > 0
    THEN RoundHalfEven(counts.completed * 1000, counts.total)
    ELSE 0

improvement_suggestions(insights) ==
    (IF insights.average_session_length > 1200
     THEN <<"shorter sessions">> ELSE <<>>)
    \o (IF insights.completion_rate < 700
        THEN <<"realistic deadlines">> ELSE <<>>)
    \o (IF insights.most_productive_time = <<>>
        THEN <<"track patterns">> ELSE <<>>)

\* The value of `insights` after the first n queries have run.
insights_after(n, env) ==
    [most_productive_time |->
        IF n >= 1 /\ env.hour # <<>> THEN <<TimeLabel(env.hour[1])>> ELSE <<>>,
     average_session_length |->
        IF n >= 2 /\ env.avg_session # <<>> /\ env.avg_session[1] # 0
        THEN RoundHalfEven(env.avg_session[1], 1000) ELSE 0,
     completion_rate |->
        IF n >= 3 THEN completion_rate(env.counts) ELSE 0,
     improvement_suggestions |-> <<>>,
     top_categories |->
        IF n >= 4 THEN TopCategoryRows(env) ELSE <<>>,
     project_breakdown |->
        IF n >= 5 THEN ProjectBreakdownRows(env) ELSE <<>>]

get_productivity_insights(env) ==
    IF env.fail.at # 0 /\ env.fail.how = "raise" THEN Raise("Exception")
    ELSE IF env.fail.at # 0 THEN Return(insights_after(env.fail.at - 1, env))
    ELSE LET insights == insights_after(5, env)
         IN  Return([insights EXCEPT !.improvement_suggestions =
                                         improvement_suggestions(insights)])

\* min(100.0, (completed / total) * 100) as the fraction num / den; 0 when
\* the user has no tasks or the query raises anything.
get_task_completion_rate(outcome, counts) ==
    IF outcome # "ok" THEN Return([num |-> 0, den |-> 1])
    ELSE IF counts.total > 0
    THEN Return([num |-> IF counts.completed * 100 < 100 * counts.total
                         THEN counts.completed * 100 ELSE 100 * counts.total,
                 den |-> counts.total])
    ELSE Return([num |-> 0, den |-> 1])

(***************************************************************************)
(* IntelligentScheduler.create_smart_schedule and its helpers              *)
(***************************************************************************)
BufferMinutes == 15     \* buffer after a conflicting task
MinutesPerDay == 1440

\* the default of insights.get('most_productive_hours', ...)
DefaultProductiveHours == <<9, 10, 11, 14, 15, 16>>

Hour(t) == (t % MinutesPerDay) \div 60

\* t.replace(hour=h, minute=0, second=0, microsecond=0)
AtHour(t, h) == (t \div MinutesPerDay) * MinutesPerDay + h * 60

_calculate_break_duration(task_duration) ==
    IF task_duration <= 30 THEN 5
    ELSE IF task_duration <= 60 THEN 10
    ELSE IF task_duration <= 120 THEN 15
    ELSE 20

RECURSIVE resolve_conflicts(_, _)
\* for task in existing_tasks: push the start behind a task that ends later
resolve_conflicts(start_time, existing_tasks) ==
    IF existing_tasks = <<>> THEN start_time
    ELSE LET task == Head(existing_tasks)
             task_end == task.start_time + task.duration
         IN  resolve_conflicts(
                 IF start_time < task_end THEN task_end + BufferMinutes
                 ELSE start_time,
                 Tail(existing_tasks))

\* Variant of next_productive_time that keeps the minutes of the cursor.
next_productive_time_keeping_minutes(current_time, productive_hours) ==
    LET later == {k \in 1..Len(productive_hours) :
                      productive_hours[k] > Hour(current_time)}
        minute == current_time % 60
    IN  IF Hour(current_time) \in Range(productive_hours) THEN current_time
        ELSE IF later # {}
        THEN AtHour(current_time, productive_hours[SetMin(later)]) + minute
        ELSE AtHour(current_time + MinutesPerDay, productive_hours[1]) + minute

\* The first part of _find_optimal_start_time: the cursor moved to a
\* productive hour (the first hour of the list that is later, else the
\* list's first hour on the next day).
next_productive_time(current_time, productive_hours) ==
    LET later == {k \in 1..Len(productive_hours) :
                      productive_hours[k] > Hour(current_time)}
    IN  IF Hour(current_time) \in Range(productive_hours) THEN current_time
        ELSE IF later # {}
        THEN AtHour(current_time, productive_hours[SetMin(later)])
        ELSE AtHour(current_time + MinutesPerDay, productive_hours[1])

_find_optimal_start_time(current_time, duration, productive_hours, existing_tasks) ==
    resolve_conflicts(next_productive_time(current_time, productive_hours),
                      existing_tasks)

RECURSIVE schedule_loop(_, _, _, _, _)
\* The for loop from its i-th task on (i counts from 1).
schedule_loop(tasks, i, current_time, productive_hours, scheduled_tasks) ==
    IF i > Len(tasks) THEN Return(scheduled_tasks)
    ELSE
    LET task == tasks[i]
        prediction == predict_task_duration(task.category_id, task.env).value
    IN  IF "predicted_duration" \notin DOMAIN prediction
        THEN Raise("KeyError")
        ELSE
        LET duration == prediction["predicted_duration"]
            optimal == _find_optimal_start_time(
                           current_time, duration, productive_hours, scheduled_tasks)
            start_time ==
                IF i > 1 THEN optimal + _calculate_break_duration(duration)
                ELSE optimal
            scheduled_task ==
                [task_name |-> task.name,
                 start_time |-> start_time,
                 duration |-> duration,
                 confidence |-> prediction.confidence,
                 category |-> DictGet(task, "category_name", "Unknown"),
                 project |-> DictGet(task, "project_name", "No Project")]
        IN  schedule_loop(tasks, i + 1, start_time + duration, productive_hours,
                          Append(scheduled_tasks, scheduled_task))

\* insights.get('most_productive_hours', [9, 10, 11, 14, 15, 16])
productive_hours_of(insights) ==
    DictGet(insights, "most_productive_hours", DefaultProductiveHours)

\* The try block: an exception anywhere in it ends it.
schedule_try(tasks, now, insight_env) ==
    IF analytics = "None" THEN Raise("AttributeError")
    ELSE LET insights == get_productivity_insights(insight_env)
         IN  IF insights.raised THEN insights
             ELSE schedule_loop(tasks, 1, now,
                                productive_hours_of(insights.value), <<>>)

\* Variant of create_smart_schedule without the except clause.
create_smart_schedule_unhandled(tasks, now, insight_env) ==
    schedule_try(tasks, now, insight_env)

create_smart_schedule(tasks, now, insight_env) ==
    LET r == schedule_try(tasks, now, insight_env)
    IN  IF r.raised THEN Return(<<>>) ELSE r

\* Candidate tasks with what the store answers when each is estimated:
\* A planning, no history; B coding, sessions averaging 150 minutes;
\* C testing, the estimator's query raises; D no category, the store fails.
CandidateTasks ==
    {[name |-> "A", category_id |-> 5,
      env |-> [cat |-> "ok", avg_q |-> "ok", avg |-> <<>>]],
     [name |-> "B", category_id |-> 1,
      env |-> [cat |-> "ok", avg_q |-> "ok", avg |-> <<1500000>>]],
     [name |-> "C", category_id |-> 3,
      env |-> [cat |-> "ok", avg_q |-> "raise", avg |-> <<>>]],
     [name |-> "D", category_id |-> 0,
      env |-> [cat |-> "ok", avg_q |-> "error", avg |-> <<>>]]}

Batches == UNION {[1..n -> CandidateTasks] : n \in 0..MaxBatch}

\* datetime.now(): 08:00, 10:10, 17:00 of day 0
Clock == {480, 610, 1020}

\* What the insights queries meet during create_smart_schedule.
ScheduleInsightEnvs ==
    {env \in InsightEnvs :
        /\ Len(env.tasks) = 3
        /\ env.bare \in {2, 3}
        /\ env.hour \in {<<>>, <<9>>, <<20>>}
        /\ env.fail \in {[at |-> 0, how |-> "error"],
                         [at |-> 1, how |-> "error"],
                         [at |-> 1, how |-> "raise"]}}

(***************************************************************************)
(* Analytics.suggest_break                                                 *)
(***************************************************************************)
\* SUM(tl.duration_minutes) of the sessions started in the last 4 hours:
\* NULL when there is none.
RecentTimes == OptionOf({0, 50, 60, 61, 120, 121, 240, 241, 250})

break_suggestion(type, duration) == <<[type |-> type, duration |-> duration]>>

\* Variant of suggest_break whose thresholds are inclusive.
suggest_break_inclusive(outcome, recent) ==
    LET recent_time == IF recent # <<>> /\ recent[1] # 0 THEN recent[1] ELSE 0
    IN  IF outcome = "raise" THEN Raise("Exception")
        ELSE IF outcome = "error" THEN Return(<<>>)
        ELSE IF recent_time >= 240
        THEN Return(break_suggestion("extended_break", 30))
        ELSE IF recent_time >= 120
        THEN Return(break_suggestion("short_break", 15))
        ELSE IF recent_time >= 60
        THEN Return(break_suggestion("micro_break", 5))
        ELSE Return(<<>>)

\* The suggestion (None is <<>>) for the recent work time the query returns;
\* a mysql error gives None, any other exception reaches the caller.
suggest_break(outcome, recent) ==
    LET recent_time == IF recent # <<>> /\ recent[1] # 0 THEN recent[1] ELSE 0
    IN  IF outcome = "raise" THEN Raise("Exception")
        ELSE IF outcome = "error" THEN Return(<<>>)
        ELSE IF recent_time > 240
        THEN Return(break_suggestion("extended_break", 30))
        ELSE IF recent_time > 120
        THEN Return(break_suggestion("short_break", 15))
        ELSE IF recent_time > 60
        THEN Return(break_suggestion("micro_break", 5))
        ELSE Return(<<>>)

(***************************************************************************)
(* Inputs of _find_optimal_start_time                                      *)
(***************************************************************************)
\* The cursor: 08:00, 10:10, 12:30, 17:45 of day 0 and 07:05 of day 1
CursorTimes == {480, 610, 750, 1065, 1865}

\* Lists of productive hours, in ascending order as the default list is
ProductiveHourLists == {DefaultProductiveHours, <<9, 14>>, <<14>>, <<0, 23>>}

\* Tasks already placed: none, or one hour from 09:00 of day 0
ExistingTaskLists == {<<>>, <<[start_time |-> 540, duration |-> 60]>>}

(***************************************************************************)
(* State of the reminder system and of the timers                          *)
(***************************************************************************)
MaxWorkers == 2     \* most reminder threads ever created
MaxCalls == 3       \* most calls of start / stop_reminder_system
MaxPasses == 3      \* most passes of the reminder loop
MaxLogs == 3        \* most rows of time_logs

WorkerIds == 1..MaxWorkers
ReminderTaskIds == {1, 2}
TrackerIds == {1, 2}

JoinTimeout == 1        \* reminder_thread.join(timeout=1), seconds
SleepSeconds == 300     \* time.sleep(300)

\* due_date - CURDATE() of a task, in days
DueOffsets == {-3, -2, -1, 0, 1, 2, 3}

\* SUM(duration_minutes) of the closed sessions of the last 4 hours
RecentWork == {0, 130, 250}

\* What the reminder queries read: the user's tasks and recent work.  At
\* first no task is completed; task 2 is three days overdue.
Stores ==
    {st \in [tasks : [ReminderTaskIds ->
                         [due : DueOffsets, completed : {FALSE}]],
             recent : RecentWork] :
        st.tasks[2].due = -3}

\* A store without tasks and without recent work.
EmptyStore == [tasks |-> <<>>, recent |-> 0]

notification(kind, task) == <<[kind |-> kind, task |-> task]>>

\* Variant of check_overdue_tasks that reminds on every day overdue.
check_overdue_tasks_daily(st) ==
    Flatten([t \in DOMAIN st.tasks |->
                LET task == st.tasks[t]
                    days_overdue == 0 - task.due
                IN  IF task.completed \/ task.due >= 0 THEN <<>>
                    ELSE IF days_overdue = 1 THEN notification("overdue", t)
                    ELSE notification("severely_overdue", t)],
            Cardinality(DOMAIN st.tasks))

\* _check_overdue_tasks: one row per unfinished task due before today
check_overdue_tasks(st) ==
    Flatten([t \in DOMAIN st.tasks |->
                LET task == st.tasks[t]
                    days_overdue == 0 - task.due
                IN  IF task.completed \/ task.due >= 0 THEN <<>>
                    ELSE IF days_overdue = 1 THEN notification("overdue", t)
                    ELSE IF days_overdue % 3 = 0
                    THEN notification("severely_overdue", t)
                    ELSE <<>>],
            Cardinality(DOMAIN st.tasks))

\* Variant of check_upcoming_deadlines without the due-tomorrow case.
check_upcoming_deadlines_without_tomorrow(st) ==
    Flatten([t \in DOMAIN st.tasks |->
                LET task == st.tasks[t]
                    days_until_due == task.due
                IN  IF task.completed \/ task.due < 0 \/ task.due > 3 THEN <<>>
                    ELSE IF days_until_due = 0 THEN notification("due_today", t)
                    ELSE IF days_until_due = 3
                    THEN notification("due_in_3_days", t)
                    ELSE <<>>],
            Cardinality(DOMAIN st.tasks))

\* _check_upcoming_deadlines: one row per unfinished task due within 3 days
check_upcoming_deadlines(st) ==
    Flatten([t \in DOMAIN st.tasks |->
                LET task == st.tasks[t]
                    days_until_due == task.due
                IN  IF task.completed \/ task.due < 0 \/ task.due > 3 THEN <<>>
                    ELSE IF days_until_due = 0 THEN notification("due_today", t)
                    ELSE IF days_until_due = 1
                    THEN notification("due_tomorrow", t)
                    ELSE IF days_until_due = 3
                    THEN notification("due_in_3_days", t)
                    ELSE <<>>],
            Cardinality(DOMAIN st.tasks))

\* _suggest_breaks
suggest_breaks(st) ==
    IF st.recent > 240 THEN notification("break", 0)
    ELSE IF st.recent > 120 THEN notification("hydrate", 0)
    ELSE <<>>

\* The notifications one pass of the loop prints: with the store failing,
\* execute_query returns None, the first two checks catch the TypeError of
\* iterating it and print an error, the third skips; no exception reaches
\* the loop, which goes on to time.sleep(300).
pass_notifications(db, st) ==
    IF db = "error" THEN <<>>
    ELSE check_overdue_tasks(st) \o check_upcoming_deadlines(st)
             \o suggest_breaks(st)

\* Variant of store_after_pass in which a pass clears the recent work.
store_after_pass_clearing(st) == [st EXCEPT !.recent = 0]

\* The store after one pass: the three checks run SELECT queries only.
store_after_pass(st) == st

\* Variant of join_done for a join without timeout.
join_done_without_timeout(alive, left) == ~alive

\* join(timeout=1) ends when the thread has ended or the timeout is over.
join_done(alive, left) == ~alive \/ left = 0

(***************************************************************************)
(* The state machine: a caller invokes one operation at a time and takes   *)
(* its result.                                                             *)
(***************************************************************************)
\* IntelligentScheduler.__init__: no reminder thread, not running.
ReminderConstructed ==
    /\ is_running = FALSE
    /\ reminder_thread = <<>>
    /\ workers = [w \in WorkerIds |-> [pc |-> "unborn", left |-> 0]]
    /\ fg = "idle"
    /\ join_left = 0
    /\ console = <<>>
    /\ notifications = <<>>

\* The threads that use the scheduler's DatabaseConnector and the queries
\* each sends through execute_query, in order, again and again: the reminder
\* thread those of its three checks, the foreground thread those of
\* predict_task_duration.
CursorThreads == {"reminder", "foreground"}
ThreadQueries ==
    [reminder |-> <<"overdue", "upcoming", "breaks">>,
     foreground |-> <<"category", "average">>]

\* DatabaseConnector.connect: a fresh cursor, no call in progress.
CursorConstructed ==
    /\ shared_cursor = <<>>
    /\ callers = [th \in CursorThreads |->
                     [pc |-> "idle", next |-> 1, asked |-> <<>>, got |-> <<>>]]

\* TimeTracker.__init__ of every instance: no call in progress.
TrackersConstructed ==
    trackers = [i \in TrackerIds |-> [pc |-> "idle", task |-> 0, log |-> 0,
                                      result |-> "none"]]

Init ==
    /\ analytics \in {"None", "Analytics"}
    /\ op = "idle"
    /\ arg = <<>>
    /\ ret = <<>>
    /\ ReminderConstructed
    /\ store = EmptyStore
    /\ TrackersConstructed
    /\ time_logs = <<>>
    /\ CursorConstructed

PredictTaskDuration ==
    /\ op = "idle"
    /\ \E category_id \in CategoryIds :
         \E env \in PredictEnvs(category_id) :
            /\ op' = "predict_task_duration"
            /\ arg' = [category_id |-> category_id, env |-> env]
            /\ ret' = predict_task_duration(category_id, env)
    /\ UNCHANGED <<analytics, reminderVars, timerVars, cursorVars>>

GetSmartSchedulingSuggestion ==
    /\ op = "idle"
    /\ \E category_id \in {0, 3} :
         \E env \in SuggestionEnvs :
            /\ op' = "get_smart_scheduling_suggestion"
            /\ arg' = [category_id |-> category_id, env |-> env]
            /\ ret' = get_smart_scheduling_suggestion(category_id, env)
    /\ UNCHANGED <<analytics, reminderVars, timerVars, cursorVars>>

GetProductivityInsights ==
    /\ op = "idle"
    /\ \E env \in InsightEnvs :
            /\ op' = "get_productivity_insights"
            /\ arg' = env
            /\ ret' = get_productivity_insights(env)
    /\ UNCHANGED <<analytics, reminderVars, timerVars, cursorVars>>

GetTaskCompletionRate ==
    /\ op = "idle"
    /\ \E outcome \in QueryOutcomes :
         \E counts \in CompletionCounts :
            /\ op' = "get_task_completion_rate"
            /\ arg' = [outcome |-> outcome, counts |-> counts]
            /\ ret' = get_task_completion_rate(outcome, counts)
    /\ UNCHANGED <<analytics, reminderVars, timerVars, cursorVars>>

CreateSmartSchedule ==
    /\ op = "idle"
    /\ \E tasks \in Batches :
         \E now \in Clock :
           \E insight_env \in ScheduleInsightEnvs :
            /\ op' = "create_smart_schedule"
            /\ arg' = [tasks |-> tasks, now |-> now, insight_env |-> insight_env]
            /\ ret' = create_smart_schedule(tasks, now, insight_env)
    /\ UNCHANGED <<analytics, reminderVars, timerVars, cursorVars>>

SuggestBreak ==
    /\ op = "idle"
    /\ \E outcome \in QueryOutcomes :
         \E recent \in RecentTimes :
            /\ op' = "suggest_break"
            /\ arg' = [outcome |-> outcome, recent_time |-> recent]
            /\ ret' = suggest_break(outcome, recent)
    /\ UNCHANGED <<analytics, reminderVars, timerVars, cursorVars>>

FindOptimalStartTime ==
    /\ op = "idle"
    /\ \E current_time \in CursorTimes :
         \E productive_hours \in ProductiveHourLists :
           \E existing_tasks \in ExistingTaskLists :
            /\ op' = "_find_optimal_start_time"
            /\ arg' = [current_time |-> current_time,
                       productive_hours |-> productive_hours,
                       existing_tasks |-> existing_tasks]
            /\ ret' = Return(_find_optimal_start_time(
                                 current_time, 60, productive_hours,
                                 existing_tasks))
    /\ UNCHANGED <<analytics, reminderVars, timerVars, cursorVars>>

\* The caller has taken the result.
TakeResult ==
    /\ op # "idle"
    /\ op' = "idle"
    /\ arg' = <<>>
    /\ ret' = <<>>
    /\ UNCHANGED <<analytics, reminderVars, timerVars, cursorVars>>

Next ==
    \/ PredictTaskDuration
    \/ GetSmartSchedulingSuggestion
    \/ GetProductivityInsights
    \/ GetTaskCompletionRate
    \/ CreateSmartSchedule
    \/ SuggestBreak
    \/ FindOptimalStartTime
    \/ TakeResult

Spec == Init /\ [][Next]_vars

(***************************************************************************)
(* The reminder system: a foreground thread calls start / stop, the        *)
(* reminder threads run _reminder_loop, time passes from one timer expiry  *)
(* to the next.                                                            *)
(***************************************************************************)
InitReminder ==
    /\ analytics = "Analytics"
    /\ op = "idle"
    /\ arg = <<>>
    /\ ret = <<>>
    /\ ReminderConstructed
    /\ store \in Stores
    /\ TrackersConstructed
    /\ time_logs = <<>>
    /\ CursorConstructed

Unborn == {w \in WorkerIds : workers[w].pc = "unborn"}

\* Variant of StartReminderSystem without the is_running test.
StartReminderSystemUnguarded ==
    /\ fg = "idle"
    /\ Len(console) < MaxCalls
    /\ Unborn # {}
    /\ is_running' = TRUE
    /\ reminder_thread' = <<SetMin(Unborn)>>
    /\ workers' = [workers EXCEPT ![SetMin(Unborn)] = [pc |-> "top", left |-> 0]]
    /\ console' = Append(console, "started")
    /\ UNCHANGED <<fg, join_left, store, notifications, callVars, timerVars, cursorVars>>

StartReminderSystem ==
    /\ fg = "idle"
    /\ Len(console) < MaxCalls
    /\ IF is_running
       THEN /\ console' = Append(console, "already running")
            /\ UNCHANGED <<is_running, reminder_thread, workers>>
       ELSE /\ Unborn # {}
            /\ is_running' = TRUE
            /\ reminder_thread' = <<SetMin(Unborn)>>
            /\ workers' = [workers EXCEPT
                              ![SetMin(Unborn)] = [pc |-> "top", left |-> 0]]
            /\ console' = Append(console, "started")
    /\ UNCHANGED <<fg, join_left, store, notifications, callVars, timerVars, cursorVars>>

\* stop_reminder_system up to its join
StopReminderSystem ==
    /\ fg = "idle"
    /\ Len(console) < MaxCalls
    /\ is_running' = FALSE
    /\ IF reminder_thread # <<>>
       THEN /\ fg' = "joining"
            /\ join_left' = JoinTimeout
            /\ UNCHANGED console
       ELSE /\ console' = Append(console, "stopped")
            /\ UNCHANGED <<fg, join_left>>
    /\ UNCHANGED <<reminder_thread, workers, store, notifications,
                   callVars, timerVars, cursorVars>>

\* stop_reminder_system from the end of its join
StopReturn ==
    /\ fg = "joining"
    /\ join_done(workers[reminder_thread[1]].pc # "exited", join_left)
    /\ fg' = "idle"
    /\ join_left' = 0
    /\ console' = Append(console, "stopped")
    /\ UNCHANGED <<is_running, reminder_thread, workers, store, notifications,
                   callVars, timerVars, cursorVars>>

\* One evaluation of `while self.is_running` by thread w and, when it is
\* true, the three checks up to the sleep.
WorkerPass(w) ==
    /\ workers[w].pc = "top"
    /\ IF is_running
       THEN /\ Len(notifications) < MaxPasses
            /\ \E db \in {"ok", "error"} :
                  notifications' =
                      Append(notifications,
                             [worker |-> w,
                              errors |-> db = "error",
                              notes |-> pass_notifications(db, store)])
            /\ store' = store_after_pass(store)
            /\ workers' = [workers EXCEPT
                              ![w] = [pc |-> "sleeping", left |-> SleepSeconds]]
       ELSE /\ workers' = [workers EXCEPT ![w] = [pc |-> "exited", left |-> 0]]
            /\ UNCHANGED <<store, notifications>>
    /\ UNCHANGED <<is_running, reminder_thread, fg, join_left, console,
                   callVars, timerVars, cursorVars>>

\* time.sleep returns in thread w
WorkerWake(w) ==
    /\ workers[w].pc = "sleeping"
    /\ workers[w].left = 0
    /\ workers' = [workers EXCEPT ![w] = [pc |-> "top", left |-> 0]]
    /\ UNCHANGED <<is_running, reminder_thread, fg, join_left, console, store,
                   notifications, callVars, timerVars, cursorVars>>

Sleeping == {w \in WorkerIds : workers[w].pc = "sleeping"}

\* The seconds left on every running timer
Timers ==
    {workers[w].left : w \in Sleeping}
    \cup (IF fg = "joining" THEN {join_left} ELSE {})

\* Time passes until the next timer expires.  A thread that is not asleep
\* takes its step first: a pass takes no time on the scale of the timers.
Advance ==
    /\ Timers # {}
    /\ 0 \notin Timers
    /\ \A w \in WorkerIds : workers[w].pc # "top"
    /\ LET d == SetMin(Timers)
       IN  /\ workers' = [w \in WorkerIds |->
                            IF w \in Sleeping
                            THEN [workers[w] EXCEPT !.left = @ - d]
                            ELSE workers[w]]
           /\ join_left' = IF fg = "joining" THEN join_left - d ELSE join_left
    /\ UNCHANGED <<is_running, reminder_thread, fg, console, store,
                   notifications, callVars, timerVars, cursorVars>>

\* The user marks a task completed (TaskManager.update_task_status).
CompleteTask(t) ==
    /\ ~store.tasks[t].completed
    /\ store' = [store EXCEPT !.tasks[t].completed = TRUE]
    /\ UNCHANGED <<is_running, reminder_thread, workers, fg, join_left,
                   console, notifications, callVars, timerVars, cursorVars>>

NextReminder ==
    \/ StartReminderSystem
    \/ StopReminderSystem
    \/ StopReturn
    \/ \E w \in WorkerIds : WorkerPass(w)
    \/ \E w \in WorkerIds : WorkerWake(w)
    \/ Advance
    \/ \E t \in ReminderTaskIds : CompleteTask(t)

SpecReminder == InitReminder /\ [][NextReminder]_vars

(***************************************************************************)
(* The timers: TimeTracker instances of one user, each with its own        *)
(* connection, run start_timer and stop_timer query by query on the same   *)
(* time_logs table.                                                        *)
(***************************************************************************)
\* task_id arguments: two tasks of the user and one that does not exist
TimerTaskIds == {1, 2}
TimerTaskArgs == TimerTaskIds \cup {9}

\* duration_minutes of a stopped session
SessionMinutes == {10, 45}

OpenLogs(logs) == {k \in DOMAIN logs : logs[k].open}

\* check_active_timer: the latest row without end_time (None is <<>>); a
\* failed query gives None as well.
check_active_timer(outcome, logs) ==
    IF outcome # "ok" \/ OpenLogs(logs) = {} THEN <<>>
    ELSE <<SetMax(OpenLogs(logs))>>

\* What stop_timer returns after its UPDATE succeeded: for a session longer
\* than 30 minutes it indexes the break suggestion with 'should_take_break',
\* a key no suggestion has (and None has none), and the except clause
\* returns False.
stop_timer_result(duration_minutes) ==
    IF duration_minutes > 30 THEN "False" ELSE "True"

InitTimers ==
    /\ analytics = "Analytics"
    /\ op = "idle"
    /\ arg = <<>>
    /\ ret = <<>>
    /\ ReminderConstructed
    /\ store = EmptyStore
    /\ TrackersConstructed
    /\ time_logs = <<>>
    /\ CursorConstructed

Returned(i, result) ==
    trackers' = [trackers EXCEPT ![i] = [pc |-> "idle", task |-> 0, log |-> 0,
                                        result |-> result]]

\* start_timer up to the answer of check_active_timer
StartTimerCheck(i, task_id) ==
    /\ trackers[i].pc = "idle"
    /\ \E outcome \in {"ok", "error"} :
          IF check_active_timer(outcome, time_logs) # <<>>
          THEN Returned(i, "False")
          ELSE trackers' = [trackers EXCEPT ![i] =
                               [pc |-> "start_validate", task |-> task_id,
                                log |-> 0, result |-> "none"]]
    /\ UNCHANGED <<time_logs, callVars, reminderVars, cursorVars>>

\* start_timer: the task query
StartTimerValidate(i) ==
    /\ trackers[i].pc = "start_validate"
    /\ IF trackers[i].task \notin TimerTaskIds
       THEN Returned(i, "False")
       ELSE trackers' = [trackers EXCEPT ![i].pc = "start_insert"]
    /\ UNCHANGED <<time_logs, callVars, reminderVars, cursorVars>>

\* start_timer: INSERT INTO time_logs (task_id, start_time)
StartTimerInsert(i) ==
    /\ trackers[i].pc = "start_insert"
    /\ Len(time_logs) < MaxLogs
    /\ time_logs' = Append(time_logs, [task |-> trackers[i].task,
                                       open |-> TRUE, duration |-> 0])
    /\ Returned(i, "True")
    /\ UNCHANGED <<callVars, reminderVars, cursorVars>>

\* stop_timer up to the answer of check_active_timer
StopTimerCheck(i) ==
    /\ trackers[i].pc = "idle"
    /\ \E outcome \in {"ok", "error"} :
          LET active_timer == check_active_timer(outcome, time_logs)
          IN  IF active_timer = <<>>
              THEN Returned(i, "False")
              ELSE trackers' = [trackers EXCEPT ![i] =
                                   [pc |-> "stop_update", task |-> 0,
                                    log |-> active_timer[1],
                                    result |-> "none"]]
    /\ UNCHANGED <<time_logs, callVars, reminderVars, cursorVars>>

\* stop_timer: UPDATE time_logs SET end_time, duration_minutes WHERE log_id
StopTimerUpdate(i) ==
    /\ trackers[i].pc = "stop_update"
    /\ \E duration_minutes \in SessionMinutes :
          /\ time_logs' = [time_logs EXCEPT ![trackers[i].log] =
                              [@ EXCEPT !.open = FALSE,
                                        !.duration = duration_minutes]]
          /\ Returned(i, stop_timer_result(duration_minutes))
    /\ UNCHANGED <<callVars, reminderVars, cursorVars>>

NextTimers ==
    \/ \E i \in TrackerIds : \E task_id \in TimerTaskArgs :
          StartTimerCheck(i, task_id)
    \/ \E i \in TrackerIds : StartTimerValidate(i)
    \/ \E i \in TrackerIds : StartTimerInsert(i)
    \/ \E i \in TrackerIds : StopTimerCheck(i)
    \/ \E i \in TrackerIds : StopTimerUpdate(i)

SpecTimers == InitTimers /\ [][NextTimers]_vars

(***************************************************************************)
(* The shared cursor: the reminder thread and the foreground thread call   *)
(* execute_query on the scheduler's one DatabaseConnector without a lock.  *)
(* A call is cursor.execute (which refuses to start while a result set is  *)
(* unread, then replaces the cursor's result set by that of its query)     *)
(* followed by cursor.fetchall (which hands out the cursor's result set).  *)
(***************************************************************************)
InitCursor ==
    /\ analytics = "Analytics"
    /\ op = "idle"
    /\ arg = <<>>
    /\ ret = <<>>
    /\ is_running = TRUE
    /\ reminder_thread = <<1>>
    /\ workers = [w \in WorkerIds |->
                     IF w = 1 THEN [pc |-> "top", left |-> 0]
                     ELSE [pc |-> "unborn", left |-> 0]]
    /\ fg = "idle"
    /\ join_left = 0
    /\ console = <<"started">>
    /\ notifications = <<>>
    /\ store = EmptyStore
    /\ TrackersConstructed
    /\ time_logs = <<>>
    /\ CursorConstructed

\* The query thread th sends next
QueryOf(th) == ThreadQueries[th][callers[th].next]

\* execute_query has returned `result` to thread th, which goes on to its
\* next query (a None result is skipped or caught by the caller).
QueryReturned(th, result) ==
    callers' = [callers EXCEPT ![th] =
                   [pc |-> "idle",
                    next |-> (callers[th].next % Len(ThreadQueries[th])) + 1,
                    asked |-> <<QueryOf(th)>>,
                    got |-> result]]

\* cursor.execute, first part: an unread result set makes it raise a
\* mysql.connector Error, which execute_query turns into None.
CursorExecuteCheck(th) ==
    /\ callers[th].pc = "idle"
    /\ IF shared_cursor # <<>>
       THEN QueryReturned(th, <<"None">>)
       ELSE callers' = [callers EXCEPT ![th].pc = "checked"]
    /\ UNCHANGED <<shared_cursor, callVars, reminderVars, timerVars>>

\* cursor.execute, second part: the query runs and its result set becomes
\* the cursor's.
CursorExecuteRun(th) ==
    /\ callers[th].pc = "checked"
    /\ shared_cursor' = <<[thread |-> th, query |-> QueryOf(th)]>>
    /\ callers' = [callers EXCEPT ![th].pc = "executed"]
    /\ UNCHANGED <<callVars, reminderVars, timerVars>>

\* cursor.fetchall: the rows of the cursor's result set, whichever query
\* produced it; without a result set it raises and execute_query returns
\* None.
CursorFetchAll(th) ==
    /\ callers[th].pc = "executed"
    /\ IF shared_cursor = <<>>
       THEN QueryReturned(th, <<"None">>)
       ELSE QueryReturned(th, <<shared_cursor[1].query>>)
    /\ shared_cursor' = <<>>
    /\ UNCHANGED <<callVars, reminderVars, timerVars>>

NextCursor ==
    \/ \E th \in CursorThreads : CursorExecuteCheck(th)
    \/ \E th \in CursorThreads : CursorExecuteRun(th)
    \/ \E th \in CursorThreads : CursorFetchAll(th)

SpecCursor == InitCursor /\ [][NextCursor]_vars

(***************************************************************************)
(* Properties                                                              *)
(***************************************************************************)
IsCall(name) == op = name

\* the estimator's two queries run for this candidate
EstimatorWorks(task) == task.env.cat = "ok" /\ task.env.avg_q = "ok"

\* the scheduler has its Analytics object and none of its queries fails
InsightsWork == analytics = "Analytics" /\ arg.insight_env.fail.at = 0

\* C2: for a non-empty candidate list, with the estimator and the insights
\* aggregator working, create_smart_schedule returns one scheduled task per
\* candidate, entry i being candidate i, with strictly increasing start times.
C2_OneEntryPerCandidate ==
    (/\ IsCall("create_smart_schedule")
     /\ arg.tasks # <<>>
     /\ InsightsWork
     /\ \A i \in 1..Len(arg.tasks) : EstimatorWorks(arg.tasks[i]))
    => /\ ~ret.raised
       /\ Len(ret.value) = Len(arg.tasks)
       /\ \A i \in 1..Len(arg.tasks) : ret.value[i].task_name = arg.tasks[i].name
       /\ \A i \in 1..(Len(arg.tasks) - 1) :
              ret.value[i].start_time < ret.value[i + 1].start_time

\* the estimate of this candidate is one hour (60 minutes)
EstimatedOneHour(task) ==
    predict_task_duration(task.category_id, task.env).value.duration = 10

\* C3: called at 08:00 with two tasks each estimated at 60 minutes, the
\* schedule places task1 at 09:00-10:00 and task2 at the start found for
\* 10:10 (task1's end plus the 10-minute break): minute 0 of the next
\* productive hour when hour 10 is not productive, which is 14:00 for the
\* productive hours [9,14].
C3_ScenarioPlacement ==
    (/\ IsCall("create_smart_schedule")
     /\ arg.now = 480
     /\ Len(arg.tasks) = 2
     /\ InsightsWork
     /\ \A i \in 1..2 : EstimatorWorks(arg.tasks[i]) /\ EstimatedOneHour(arg.tasks[i]))
    => LET hours == DictGet(get_productivity_insights(arg.insight_env).value,
                            "most_productive_hours", DefaultProductiveHours)
       IN  /\ Len(ret.value) = 2
           /\ ret.value[1].start_time = 540
           /\ ret.value[1].start_time + ret.value[1].duration = 600
           /\ ret.value[2].start_time =
                  _find_optimal_start_time(610, 60, hours, <<>>)
           /\ hours = <<9, 14>> => ret.value[2].start_time = 840

\* C4: create_smart_schedule returns a list for every input and lets no
\* exception out, also when the estimator, the insights aggregator or the
\* store fail; for an empty candidate list it returns the empty list.
C4_AlwaysReturnsList ==
    IsCall("create_smart_schedule")
    => /\ ~ret.raised
       /\ DOMAIN ret.value = 1..Len(ret.value)
       /\ arg.tasks = <<>> => ret.value = <<>>

\* C4 witness: a batch whose estimation raises, with the insights query
\* raising as well, has returned a list.
C4_Witness ==
    /\ IsCall("create_smart_schedule")
    /\ arg.tasks # <<>>
    /\ \E i \in 1..Len(arg.tasks) : arg.tasks[i].env.avg_q = "raise"
    /\ arg.insight_env.fail.how = "raise"
    /\ ~ret.raised
    /\ ret.value = <<>>

\* C5: when estimation fails for a candidate of the batch (the insights
\* queries may fail too, without raising), every candidate of the batch is
\* still placed, and the failing one with the default one-hour duration.
C5_FailureIsolated ==
    (/\ IsCall("create_smart_schedule")
     /\ analytics = "Analytics"
     /\ arg.insight_env.fail.how # "raise"
     /\ \E i \in 1..Len(arg.tasks) : ~EstimatorWorks(arg.tasks[i]))
    => /\ ~ret.raised
       /\ Len(ret.value) = Len(arg.tasks)
       /\ \A i \in 1..Len(arg.tasks) :
              ~EstimatorWorks(arg.tasks[i]) => ret.value[i].duration = 60

\* C6: the estimator never raises and returns, for every input, an estimate
\* with a strictly positive duration and a method label.
C6_EstimatorUsable ==
    IsCall("predict_task_duration")
    => /\ ~ret.raised
       /\ ret.value.duration > 0
       /\ ret.value.method \in {"Historical Average", "Default Estimate"}

\* the rows the similar-tasks query found for the pending suggestion
Found == arg.env.rows

MinAvg(rows) == SetMin({rows[i].avg_duration : i \in 1..Len(rows)})

MaxAvg(rows) == SetMax({rows[i].avg_duration : i \in 1..Len(rows)})

\* C7 as stated: for a non-empty set of similar tasks the estimated duration
\* equals sum(avg_i * count_i) / sum(count_i) and lies between the smallest
\* and the largest avg_duration.  (estimated_duration is in hundredths of a
\* minute, the averages in 1/10000 minutes.)
C7_ExactWeightedMean ==
    (IsCall("get_smart_scheduling_suggestion") /\ ~ret.raised /\ Found # <<>>)
    => /\ ret.value.estimated_duration * 100 * SumCounts(Found) = SumWeighted(Found)
       /\ MinAvg(Found) <= ret.value.estimated_duration * 100
       /\ ret.value.estimated_duration * 100 <= MaxAvg(Found)

Abs(x) == IF x < 0 THEN -x ELSE x

\* C7 amended: the estimated duration is the weighted mean rounded to two
\* decimals: it differs from sum(avg_i * count_i) / sum(count_i) by at most
\* 0.005 and lies within 0.005 of the interval [min avg, max avg].
C7_RoundedWeightedMean ==
    (IsCall("get_smart_scheduling_suggestion") /\ ~ret.raised /\ Found # <<>>)
    => /\ 2 * Abs(ret.value.estimated_duration * 100 * SumCounts(Found)
                  - SumWeighted(Found)) <= 100 * SumCounts(Found)
       /\ MinAvg(Found) - 50 <= ret.value.estimated_duration * 100
       /\ ret.value.estimated_duration * 100 <= MaxAvg(Found) + 50

\* C7 witness: similar tasks with different averages and different weights,
\* whose weighted mean has more than two decimals.
C7_Witness ==
    /\ IsCall("get_smart_scheduling_suggestion")
    /\ ~ret.raised
    /\ Len(Found) >= 2
    /\ MinAvg(Found) < MaxAvg(Found)
    /\ Found[1].completion_count > Found[Len(Found)].completion_count
    /\ ret.value.estimated_duration * 100 * SumCounts(Found) # SumWeighted(Found)

LabelOf(category_id) ==
    IF category_id \in DOMAIN CategoryTable
    THEN Lower(CategoryTable[category_id]) ELSE "other"

\* C9: without history (no category average) the estimate is the default
\* table's duration for the category's label, an absent or unknown category
\* id counting as 'other', and its confidence is low.  ('duration' is in
\* tenths of an hour: 6 minutes each.)
C9_DefaultTableEstimate ==
    (/\ IsCall("predict_task_duration")
     /\ arg.env.cat = "ok" /\ arg.env.avg_q = "ok"
     /\ arg.env.avg = <<>>)
    => /\ ~ret.raised
       /\ ret.value.duration * 6 = default_durations(LabelOf(arg.category_id))
       /\ ret.value.confidence = "low"

\* C10 as stated: the completion rate of the insights is within [0,100],
\* equals completed / total * 100 when the user has tasks and is 0 when the
\* user has none.  (completion_rate is in tenths of a percent.)
C10_ExactCompletionRate ==
    (IsCall("get_productivity_insights") /\ ~ret.raised)
    => /\ ret.value.completion_rate \in 0..1000
       /\ arg.counts.total > 0 =>
              ret.value.completion_rate * arg.counts.total
                  = arg.counts.completed * 1000
       /\ arg.counts.total = 0 => ret.value.completion_rate = 0

\* the completion query of the pending get_productivity_insights call ran
CompletionQueryRan == arg.fail.at = 0 \/ arg.fail.at > 3

\* C10 amended: the completion rate is within [0,100]; it is 0 when the user
\* has no tasks; when the user has tasks and the completion query succeeds,
\* get_productivity_insights reports completed / total * 100 rounded to one
\* decimal (at most 0.05 away) and get_task_completion_rate reports it exactly.
C10_RoundedCompletionRate ==
    /\ (IsCall("get_productivity_insights") /\ ~ret.raised)
       => /\ ret.value.completion_rate \in 0..1000
          /\ (arg.counts.total > 0 /\ CompletionQueryRan) =>
                 2 * Abs(ret.value.completion_rate * arg.counts.total
                         - arg.counts.completed * 1000) <= arg.counts.total
          /\ arg.counts.total = 0 => ret.value.completion_rate = 0
    /\ IsCall("get_task_completion_rate")
       => /\ ~ret.raised
          /\ 0 <= ret.value.num /\ ret.value.num <= 100 * ret.value.den
          /\ (arg.counts.total > 0 /\ arg.outcome = "ok") =>
                 ret.value.num * arg.counts.total
                     = arg.counts.completed * 100 * ret.value.den
          /\ arg.counts.total = 0 => ret.value.num = 0

\* C10 witness: one task of three is completed and the insights report 33.3.
C10_Witness ==
    /\ IsCall("get_productivity_insights")
    /\ ~ret.raised
    /\ arg.fail.at = 0
    /\ arg.counts = [completed |-> 1, total |-> 3]
    /\ ret.value.completion_rate = 333


\* C11: when its query succeeds, suggest_break maps the sum S of the durations
\* logged in the last 4 hours (0 when there are none) to an extended break of
\* 30 minutes if S > 240, else a short break of 15 if S > 120, else a micro
\* break of 5 if S > 60, else to no suggestion; the result is determined by
\* S alone.
C11_BreakBySum ==
    (IsCall("suggest_break") /\ arg.outcome = "ok") =>
        LET S == IF arg.recent_time = <<>> THEN 0 ELSE arg.recent_time[1]
        IN  /\ ~ret.raised
            /\ (S > 240) =>
                   ret.value = <<[type |-> "extended_break", duration |-> 30]>>
            /\ (S > 120 /\ S <= 240) =>
                   ret.value = <<[type |-> "short_break", duration |-> 15]>>
            /\ (S > 60 /\ S <= 120) =>
                   ret.value = <<[type |-> "micro_break", duration |-> 5]>>
            /\ (S <= 60) => ret.value = <<>>

\* 250 minutes of recent work gave the extended break of 30 minutes.
C11_Witness ==
    /\ IsCall("suggest_break")
    /\ arg.outcome = "ok"
    /\ arg.recent_time = <<250>>
    /\ ret = Return(<<[type |-> "extended_break", duration |-> 30]>>)

\* C17: when the insights are computed without a failure for a user who has
\* tasks without category, project and logged time, no error is raised and
\* those tasks appear in the breakdowns as 'Uncategorized' and as
\* 'No Project' with zero time, and no breakdown row has a null name or a
\* null total.
C17_PartialDataLabelled ==
    (IsCall("get_productivity_insights") /\ arg.fail.at = 0 /\ arg.bare > 0) =>
        /\ ~ret.raised
        /\ \E k \in DOMAIN ret.value.top_categories :
              ret.value.top_categories[k].category_name = <<"Uncategorized">>
        /\ \E k \in DOMAIN ret.value.project_breakdown :
              /\ ret.value.project_breakdown[k].project_name = <<"No Project">>
              /\ ret.value.project_breakdown[k].total_time = <<0>>
        /\ \A k \in DOMAIN ret.value.top_categories :
              ret.value.top_categories[k].category_name # <<>>
        /\ \A k \in DOMAIN ret.value.project_breakdown :
              /\ ret.value.project_breakdown[k].project_name # <<>>
              /\ ret.value.project_breakdown[k].total_time # <<>>

\* The productive hours create_smart_schedule works with in the pending call.
HoursUsed ==
    productive_hours_of(get_productivity_insights(arg.insight_env).value)

\* C18: when create_smart_schedule obtains insights that contain a most
\* productive hour, the productive hours it uses are derived from them: they
\* contain that hour (the default list is for insights without one).
C18_HoursFromInsights ==
    (/\ IsCall("create_smart_schedule")
     /\ InsightsWork
     /\ arg.insight_env.hour # <<>>) =>
        arg.insight_env.hour[1] \in Range(HoursUsed)

\* C19: with no task placed yet, _find_optimal_start_time leaves a cursor in
\* a productive hour unchanged; else it returns minute 0 of the smallest
\* productive hour greater than the cursor's hour on the same date; else
\* minute 0 of the first productive hour on the next day.
C19_NextProductiveHour ==
    (IsCall("_find_optimal_start_time") /\ arg.existing_tasks = <<>>) =>
        LET cursor == arg.current_time
            hours == Range(arg.productive_hours)
            greater == {h \in hours : h > Hour(cursor)}
            midnight == cursor - (cursor % MinutesPerDay)
        IN  ret.value =
                IF Hour(cursor) \in hours THEN cursor
                ELSE IF greater # {} THEN midnight + 60 * SetMin(greater)
                ELSE midnight + MinutesPerDay + 60 * SetMin(hours)

\* 17:45 of day 0 with the default hours gave 09:00 of day 1, and in other
\* calls 12:30 gave 14:00 of the same day and 10:10 stayed.
C19_Witness ==
    /\ IsCall("_find_optimal_start_time")
    /\ arg.existing_tasks = <<>>
    /\ arg.productive_hours = DefaultProductiveHours
    /\ arg.current_time = 1065
    /\ ret = Return(MinutesPerDay + 540)


\* C12: start_reminder_system while running leaves the state running, starts
\* no second worker and reports a warning; stop_reminder_system while stopped
\* leaves the state stopped and neither starts nor changes a worker.
C12_IdempotentStartStop ==
    [][/\ (StartReminderSystem /\ is_running) =>
            /\ is_running'
            /\ workers' = workers
            /\ reminder_thread' = reminder_thread
            /\ Last(console') = "already running"
       /\ ((StopReminderSystem \/ StopReturn) /\ ~is_running) =>
            /\ ~is_running'
            /\ workers' = workers
            /\ reminder_thread' = reminder_thread]_vars

\* stop was called while stopped, then start, then start while running: one
\* worker exists.
C12_Witness ==
    /\ console = <<"stopped", "started", "already running">>
    /\ is_running
    /\ Cardinality(WorkerIds \ Unborn) = 1

\* stop_reminder_system has returned and nothing has been started since.
StopHasReturned ==
    /\ fg = "idle"
    /\ console # <<>>
    /\ Last(console) = "stopped"

\* C13: once stop_reminder_system has returned (1 second after the call at
\* the latest), no worker is still asleep: the worker has left its sleep.
C13_StopInterruptsSleep ==
    StopHasReturned => \A w \in WorkerIds : workers[w].pc # "sleeping"

\* C14: stop_reminder_system never waits longer than the join timeout (when
\* the timeout is over it can return, whatever the worker does), and during
\* and after it is_running is false.
C14_StopReturnsStopped ==
    /\ (fg = "joining") =>
           /\ ~is_running
           /\ join_left <= JoinTimeout
           /\ (join_left = 0) => ENABLED StopReturn
    /\ StopHasReturned => ~is_running

\* stop has returned after its timeout while the worker is still asleep.
C14_Witness ==
    /\ StopHasReturned
    /\ ~is_running
    /\ reminder_thread # <<>>
    /\ workers[reminder_thread[1]].pc = "sleeping"
    /\ workers[reminder_thread[1]].left = SleepSeconds - JoinTimeout

\* C15: a step of the reminder loop (a pass with its notifications, a wake-up
\* or the exit of a worker) leaves the tasks and the time logs as they were.
C15_LoopLeavesStore ==
    [][(workers' # workers \/ notifications' # notifications) =>
           (store' = store /\ time_logs' = time_logs)]_vars

\* Two passes have run, the last one with notifications, and the user's
\* recent work is still what it was.
C15_Witness ==
    /\ Len(notifications) >= 2
    /\ Last(notifications).notes # <<>>
    /\ store.recent = 250

\* C16: whatever start_timer and stop_timer calls the user's TimeTracker
\* instances have made, in whatever interleaving, at most one time-log entry
\* has no end time.
C16_OneOpenEntry ==
    Cardinality(OpenLogs(time_logs)) <= 1

\* The AVG query of the pending predict_task_duration call ran and gave a
\* non-null average that the estimate was computed from.
HistorySuppliedValue ==
    /\ arg.env.avg_q = "ok"
    /\ arg.category_id = 0 \/ arg.env.cat # "raise"
    /\ arg.env.avg # <<>>
    /\ arg.env.avg[1] # 0

\* C21: the method tag of an estimate is the historical one only when a
\* non-null historical average supplied the value; an estimate taken from the
\* default table carries a default tag.
C21_MethodNamesProvenance ==
    (IsCall("predict_task_duration") /\ ~ret.raised) =>
        (ret.value.method = "Historical Average" => HistorySuppliedValue)

\* The hours of day with at least one session of non-null duration among the
\* tasks of the pending get_productivity_insights call.
HoursWithSessions ==
    {h \in 0..23 : MinutesAt(TimedSessions(arg.tasks), {h}) # <<>>}

\* The average session of hour h is at least that of hour g (compared as
\* fractions: sum / count).
AverageAtLeast(h, g) ==
    LET mh == MinutesAt(TimedSessions(arg.tasks), {h})
        mg == MinutesAt(TimedSessions(arg.tasks), {g})
    IN  SumSeq(mh) * Len(mg) >= SumSeq(mg) * Len(mh)

\* C22: when its first query succeeds, get_productivity_insights reports as
\* most productive time an hour whose sessions have the highest average
\* duration among the hours with at least one session of non-null duration,
\* and None when the user has no such session.
C22_HighestAverageHour ==
    (IsCall("get_productivity_insights") /\ ~ret.raised /\ arg.fail.at # 1) =>
        IF HoursWithSessions = {}
        THEN ret.value.most_productive_time = <<>>
        ELSE \E h \in HoursWithSessions :
                /\ ret.value.most_productive_time = <<TimeLabel(h)>>
                /\ \A g \in HoursWithSessions : AverageAtLeast(h, g)

\* Three sessions of 30 minutes at 9 and one of 60 minutes at 14: the
\* insights report 14:00, the hour of the higher average and lower total.
C22_Witness ==
    /\ IsCall("get_productivity_insights")
    /\ ~ret.raised
    /\ arg.fail.at = 0
    /\ arg.tasks = <<InsightTaskKinds[2], InsightTaskKinds[3]>>
    /\ ret.value.most_productive_time = <<TimeLabel(14)>>

CategoryNameOf(task) ==
    IF task.category_id = <<>> THEN <<>>
    ELSE <<CategoryTable[task.category_id[1]]>>

ProjectNameOf(task) ==
    IF task.project_id = <<>> THEN <<>>
    ELSE <<ProjectTable[task.project_id[1]]>>

\* a NULL total counts as the smallest
TotalOf(row) == IF row.total_time = <<>> THEN -1 ELSE row.total_time[1]

\* C23: in insights computed without a failure, the category list is sorted
\* descending by task count and the project list descending by total time,
\* each has at most 5 entries, and the task count of a category or project
\* is the number of the user's tasks in it.
C23_BreakdownCounts ==
    (IsCall("get_productivity_insights") /\ ~ret.raised /\ arg.fail.at = 0) =>
        LET categories == ret.value.top_categories
            projects == ret.value.project_breakdown
        IN  /\ Len(categories) <= 5
            /\ Len(projects) <= 5
            /\ \A a, b \in DOMAIN categories :
                  a < b => categories[a].task_count >= categories[b].task_count
            /\ \A a, b \in DOMAIN projects :
                  a < b => TotalOf(projects[a]) >= TotalOf(projects[b])
            /\ \A k \in DOMAIN categories :
                  categories[k].task_count =
                      Cardinality({i \in DOMAIN arg.tasks :
                          CategoryNameOf(arg.tasks[i])
                              = categories[k].category_name})
            /\ \A k \in DOMAIN projects :
                  projects[k].task_count =
                      Cardinality({i \in DOMAIN arg.tasks :
                          ProjectNameOf(arg.tasks[i])
                              = projects[k].project_name})

RetrySeconds == 60      \* time.sleep(60) of the except clause of the loop

\* The latest pass of worker w met a failing store query.
LastPassFailed(w) ==
    LET mine == SelectSeq(notifications, LAMBDA pass : pass.worker = w)
    IN  mine # <<>> /\ Last(mine).errors

\* C24: a failing store query in a pass never ends the loop, and the worker
\* then sleeps the 1-minute retry interval, not the 5-minute one.
C24_RetryAfterError ==
    \A w \in WorkerIds :
        LastPassFailed(w) =>
            /\ is_running => workers[w].pc # "exited"
            /\ workers[w].pc = "sleeping" => workers[w].left <= RetrySeconds

\* What a pass that has just been recorded printed, and by which checks
NewPass == Len(notifications') > Len(notifications)
NewNotes == Range(Last(notifications').notes)

\* C25: in a pass whose queries succeed, a task gets an overdue notification
\* exactly when it is not completed and due before today and is either 1 day
\* overdue (the plain reminder) or a multiple of 3 days overdue (the severe
\* one); completed tasks and tasks not yet overdue get none.
C25_OverdueReminders ==
    [][(NewPass /\ ~Last(notifications').errors) =>
         \A t \in ReminderTaskIds :
            LET task == store.tasks[t]
                overdue == ~task.completed /\ task.due < 0
            IN  /\ [kind |-> "overdue", task |-> t] \in NewNotes
                       <=> (overdue /\ task.due = -1)
                /\ [kind |-> "severely_overdue", task |-> t] \in NewNotes
                       <=> (overdue /\ task.due < -1 /\ (0 - task.due) % 3 = 0)
      ]_vars

\* A pass has reminded of task 1, one day overdue, and of task 2, three days
\* overdue.
C25_Witness ==
    /\ notifications # <<>>
    /\ ~Last(notifications).errors
    /\ [kind |-> "overdue", task |-> 1] \in Range(Last(notifications).notes)
    /\ [kind |-> "severely_overdue", task |-> 2]
           \in Range(Last(notifications).notes)

DeadlineKinds == {"due_today", "due_tomorrow", "due_in_3_days"}

\* the deadline notifications of task t in the pass just recorded
NewDeadlineNotes(t) == {n \in NewNotes : n.task = t /\ n.kind \in DeadlineKinds}

\* C26 as stated: in a pass whose queries succeed, every task that is not
\* completed and due 0, 1, 2 or 3 days ahead gets a deadline notification
\* (of different kinds for today, tomorrow and 3 days); tasks due later,
\* overdue or completed get none.
C26_DeadlineEveryDay ==
    [][(NewPass /\ ~Last(notifications').errors) =>
         \A t \in ReminderTaskIds :
            LET task == store.tasks[t]
            IN  IF ~task.completed /\ task.due \in 0..3
                THEN NewDeadlineNotes(t) # {}
                ELSE NewDeadlineNotes(t) = {}
      ]_vars

\* C26 amended: in a pass whose queries succeed, a task that is not completed
\* gets exactly one deadline notification when it is due today (due_today),
\* tomorrow (due_tomorrow) or in 3 days (due_in_3_days); a task due in 2
\* days, due later than 3 days ahead, overdue or completed gets none.
C26_DeadlineReminders ==
    [][(NewPass /\ ~Last(notifications').errors) =>
         \A t \in ReminderTaskIds :
            LET task == store.tasks[t]
            IN  NewDeadlineNotes(t) =
                    IF task.completed THEN {}
                    ELSE IF task.due = 0
                    THEN {[kind |-> "due_today", task |-> t]}
                    ELSE IF task.due = 1
                    THEN {[kind |-> "due_tomorrow", task |-> t]}
                    ELSE IF task.due = 3
                    THEN {[kind |-> "due_in_3_days", task |-> t]}
                    ELSE {}
      ]_vars

\* A pass has reminded of task 1, due tomorrow.
C26_Witness ==
    /\ notifications # <<>>
    /\ ~Last(notifications).errors
    /\ store.tasks[1].due = 1
    /\ [kind |-> "due_tomorrow", task |-> 1]
           \in Range(Last(notifications).notes)

\* C27: while the tasks and the logs are as they were at first, no pass
\* prints a notification (same task, same condition) that an earlier pass
\* has printed.
C27_NoRepeatedNotification ==
    (\A t \in ReminderTaskIds : ~store.tasks[t].completed) =>
        \A i, j \in DOMAIN notifications :
            i < j => Range(notifications[i].notes)
                         \cap Range(notifications[j].notes) = {}

\* C28: only the worker created by the latest start_reminder_system runs a
\* pass of the loop: a worker from before a stop runs none once a later
\* start has created a new worker.
C28_OnlyLatestWorkerRuns ==
    [][NewPass => Last(notifications').worker = reminder_thread[1]]_vars

\* C29: every execute_query call on the shared DatabaseConnector returns the
\* rows of its own query, however the calls of the reminder thread and of
\* the foreground thread interleave.
C29_OwnRowsReturned ==
    \A th \in CursorThreads :
        callers[th].got # <<>> => callers[th].got = callers[th].asked

\* C30: stop_timer returns True exactly when it closed the open entry, for
\* every session length: a call that returns False has left the time logs
\* as they were, and a call that returns True has closed the entry.
C30_ResultTellsClosed ==
    [][\A i \in TrackerIds :
          (trackers[i].pc \in {"idle", "stop_update"}
           /\ trackers'[i] # trackers[i]
           /\ trackers'[i].pc = "idle") =>
              /\ trackers'[i].result = "False" => time_logs' = time_logs
              /\ (trackers[i].pc = "stop_update"
                  /\ trackers'[i].result = "True") =>
                     ~time_logs'[trackers[i].log].open
      ]_vars
====
